---- MODULE Spec2Model ----
(***************************************************************************)
(* PV-Aggregator: Huawei_modubs_UpdateAndServe_Multiparameter.py           *)
(*                                                                         *)
(* The poll thread (main_loop) reads every measurement of every inverter,  *)
(* falls back to the last successful value when a read fails, sums the     *)
(* values per measurement and writes the sums as high/low 16-bit words,    *)
(* plus the count of fresh readings, into the Modbus holding registers.    *)
(* The Modbus server thread (StartTcpServer) answers read requests from    *)
(* the same registers. The main thread's signal_handler disconnects the    *)
(* inverters and ends the process.                                         *)
(*                                                                         *)
(* Specifications: Spec (poll thread and server reads), LiveSpec (Spec     *)
(* with a fair poll thread), FirstRoundSpec (one round over a wide range   *)
(* of read values), ShutdownSpec (poll thread and one termination          *)
(* request), WideSumSpec (one round with sums of 2^32 and more).           *)
(*                                                                         *)
(* Not modelled: logging, the YAML file, the Flask status endpoint and its *)
(* detailed_values_global copy.                                            *)
(*                                                                         *)
(* Numbers: TLC's integers end at 2^31 - 1, so every value and every sum   *)
(* stays below 2^31, except in WideSumSpec, which holds numbers in two     *)
(* limbs.                                                                  *)
(***************************************************************************)
EXTENDS Integers, Sequences, FiniteSets, TLC

VARIABLES
    pc,                      \* where main_loop stands
    di,                      \* position in inverters.items()        (line 110)
    mi,                      \* position in MEASUREMENTS.items()     (line 112)
    read_outcome,            \* how the last read_raw_value call ended (line 114)
    e,                       \* the exception bound at line 123, "none" outside the handler
    reconnect_result,        \* what reconnect_inverter returned at line 128
    detailed_values,         \* the dict built by read_measurement_values
    last_successful,         \* line 228
    failed_reading_counter,  \* line 56
    aggregated_values,       \* main_loop's local, line 180
    valid_readings_count,    \* main_loop's local, line 180
    register_offset,         \* line 161
    datastore,               \* the holding registers, line 52
    data_lock,               \* line 51: "free" or the holder
    response,                \* the registers the server last read for a client
    \* history variables, read by no action
    last_raw,                \* per pair: <<the number of its last successful read>>, <<>> if none yet
    round_start,             \* last_successful as it was when the round began
    published,               \* the registers as the last completed update left them
    round_reads,             \* the read_raw_value calls of the round so far, in order
    reconnect_calls,         \* the calls reconnect_inverter has made in the handler being run
    \* the main thread's signal handler
    sig,                     \* "none", "handler" (signal_handler runs) or "exited"
    shutdown_log             \* the disconnect calls signal_handler has made, in order

vars == <<pc, di, mi, read_outcome, e, reconnect_result, detailed_values,
          last_successful, failed_reading_counter, aggregated_values,
          valid_readings_count, register_offset, datastore, data_lock,
          response, last_raw, round_start, published, round_reads,
          reconnect_calls, sig, shutdown_log>>

-----------------------------------------------------------------------------
(* Bounds of the model *)

\* read failures the devices may produce in one behaviour
MaxFailures == 4

-----------------------------------------------------------------------------
(* Configuration and constants *)

\* config['inverters']: the device names in configuration order
HUAWEI_INVERTERS == <<"A", "B">>

\* the measurement names in declaration order
MEASUREMENTS == <<"active_power", "Accumulated_energy_yield">>

NUM_MEASUREMENTS == Len(MEASUREMENTS)

MEASUREMENTS_REGISTERS == NUM_MEASUREMENTS * 2

TOTAL_REGISTER_COUNT == MEASUREMENTS_REGISTERS + 1

InverterNames == {HUAWEI_INVERTERS[i] : i \in 1..Len(HUAWEI_INVERTERS)}

MeasurementNames == {MEASUREMENTS[j] : j \in 1..NUM_MEASUREMENTS}

\* what read_raw_value may return for a register of a device (besides None)
RawValues(inverter, register) ==
    IF register = "active_power"
    THEN (IF inverter = "A" THEN {100} ELSE {50, 98304})
    ELSE (IF inverter = "A" THEN {5000} ELSE {200000})

\* a wider range of returned numbers, for the first round alone
WideValues(register) ==
    IF register = "active_power"
    THEN {-70000, 0, 100, 65535, 65536, 98304, 1073741823}
    ELSE {-150, 0, 99, 100, 5000, 12345, 2147483647}

-----------------------------------------------------------------------------
(* Pure helpers *)

\* faulty variant of ScaleYield: floor division (value // 100)
ScaleYieldFloor(value) == value \div 100

\* int(value / 100): true division, then truncation toward zero
ScaleYield(value) ==
    IF value >= 0 THEN value \div 100 ELSE -((-value) \div 100)

\* lines 118-119
Transform(measurement, value) ==
    IF measurement = "Accumulated_energy_yield" THEN ScaleYield(value) ELSE value

\* faulty variant of LowWord: the mask taken for a modulus
LowWordModMask(total_value) == total_value % 65535

\* total_value & 0xFFFF
LowWord(total_value) == total_value % 65536

\* faulty variant of HighWord: the shift without the mask
HighWordUnmasked(total_value) == total_value \div 65536

\* (total_value >> 16) & 0xFFFF
HighWord(total_value) == (total_value \div 65536) % 65536

\* faulty variant of SetValues: the address taken for a position counted from 1
SetValuesOneBased(store, address, values) ==
    [a \in DOMAIN store |->
        IF a >= address /\ a < address + Len(values)
        THEN values[a - address + 1]
        ELSE store[a]]

\* context[0].setValues(3, address, values): the words at address, address+1, ...
SetValues(store, address, values) ==
    [a \in DOMAIN store |->
        IF a - 1 >= address /\ a - 1 < address + Len(values)
        THEN values[a - address]
        ELSE store[a]]

\* faulty variant of PutEntry: the device's dict made anew for every entry
PutEntryFreshDict(dv, name, measurement, entry) ==
    [n \in DOMAIN dv \cup {name} |->
        IF n = name THEN [m \in {measurement} |-> entry] ELSE dv[n]]

\* detailed_values[name][measurement] = entry, in a dict of dicts
PutEntry(dv, name, measurement, entry) ==
    [n \in DOMAIN dv \cup {name} |->
        LET old == IF n \in DOMAIN dv THEN dv[n] ELSE [x \in {} |-> 0] IN
        IF n = name
        THEN [m \in DOMAIN old \cup {measurement} |->
                 IF m = measurement THEN entry ELSE old[m]]
        ELSE old]

\* detailed_values[name] = {}
PutEmpty(dv, name) ==
    [n \in DOMAIN dv \cup {name} |->
        IF n = name THEN [x \in {} |-> 0] ELSE dv[n]]

RECURSIVE SumOverFresh(_, _, _)
\* faulty variant of SumOver: the entries that are not fresh are left out
SumOverFresh(dv, measurement, i) ==
    IF i = 0 THEN 0
    ELSE LET name == HUAWEI_INVERTERS[i] IN
         SumOverFresh(dv, measurement, i - 1)
         + (IF name \in DOMAIN dv /\ measurement \in DOMAIN dv[name]
               /\ dv[name][measurement].updated
            THEN dv[name][measurement].value ELSE 0)

RECURSIVE SumOver(_, _, _)
\* lines 146-148 for one measurement: the devices 1..i of the dict, in order
SumOver(dv, measurement, i) ==
    IF i = 0 THEN 0
    ELSE LET name == HUAWEI_INVERTERS[i] IN
         SumOver(dv, measurement, i - 1)
         + (IF name \in DOMAIN dv /\ measurement \in DOMAIN dv[name]
            THEN dv[name][measurement].value ELSE 0)

RECURSIVE CountUpdated(_, _)
\* lines 149-150: the entries with updated = True
CountUpdated(dv, i) ==
    IF i = 0 THEN 0
    ELSE LET name == HUAWEI_INVERTERS[i] IN
         CountUpdated(dv, i - 1)
         + (IF name \in DOMAIN dv
            THEN Cardinality({m \in DOMAIN dv[name] : dv[name][m].updated})
            ELSE 0)

\* aggregate_values: the sums
AggregatedOf(dv) ==
    [m \in MeasurementNames |-> SumOver(dv, m, Len(HUAWEI_INVERTERS))]

\* faulty variant of ValidCountOf: the count of line 144 is not reset and
\* carries the rounds before
ValidCountCarried(dv) == valid_readings_count + CountUpdated(dv, Len(HUAWEI_INVERTERS))

\* aggregate_values: the count of valid readings
ValidCountOf(dv) == CountUpdated(dv, Len(HUAWEI_INVERTERS))

-----------------------------------------------------------------------------
(* Initial state: after the __main__ block has created last_successful and *)
(* started the threads.                                                    *)

Init ==
    /\ pc = "poll"
    /\ di = 1
    /\ mi = 1
    /\ read_outcome = [kind |-> "no call yet"]
    /\ e = "none"
    /\ reconnect_result = "none"
    /\ detailed_values = [x \in {} |-> 0]
    /\ last_successful = [n \in InverterNames |-> [m \in MeasurementNames |-> 0]]
    /\ failed_reading_counter = 0
    /\ aggregated_values = [m \in MeasurementNames |-> 0]
    /\ valid_readings_count = 0
    /\ register_offset = 0
    /\ datastore = [a \in 1..TOTAL_REGISTER_COUNT |-> 0]
    /\ data_lock = "free"
    /\ response = <<>>
    /\ last_raw = [n \in InverterNames |-> [m \in MeasurementNames |-> <<>>]]
    /\ round_start = last_successful
    /\ published = datastore
    /\ round_reads = <<>>
    /\ reconnect_calls = <<>>
    /\ sig = "none"
    /\ shutdown_log = <<>>

-----------------------------------------------------------------------------
(* read_measurement_values *)

name == HUAWEI_INVERTERS[di]

measurement == MEASUREMENTS[mi]

\* lines 108-111: a new dict, the first device's dict
BeginRound ==
    /\ pc = "poll"
    /\ pc' = "read"
    /\ di' = 1
    /\ mi' = 1
    /\ detailed_values' = PutEmpty([x \in {} |-> 0], HUAWEI_INVERTERS[1])
    /\ round_start' = last_successful
    /\ UNCHANGED <<last_raw, published>>
    /\ UNCHANGED <<read_outcome, e, reconnect_result, last_successful,
                   failed_reading_counter, aggregated_values,
                   valid_readings_count, register_offset, datastore, data_lock,
                   response>>
    /\ round_reads' = <<>>
    /\ UNCHANGED <<reconnect_calls, sig, shutdown_log>>

\* faulty variant of StoreAndAdvance: after a failed read the same pair is
\* read again in the same round
StoreAndAdvanceRetries(value, updated) ==
    LET stored == PutEntry(detailed_values, name, measurement,
                           [value |-> value, updated |-> updated]) IN
    IF ~updated
    THEN /\ mi' = mi
         /\ di' = di
         /\ detailed_values' = stored
         /\ pc' = "read"
    ELSE IF mi < NUM_MEASUREMENTS
    THEN /\ mi' = mi + 1
         /\ di' = di
         /\ detailed_values' = stored
         /\ pc' = "read"
    ELSE IF di < Len(HUAWEI_INVERTERS)
    THEN /\ mi' = 1
         /\ di' = di + 1
         /\ detailed_values' = PutEmpty(stored, HUAWEI_INVERTERS[di + 1])
         /\ pc' = "read"
    ELSE /\ mi' = 1
         /\ di' = 1
         /\ detailed_values' = stored
         /\ pc' = "aggregate"

\* lines 131-135 and the loop heads 110-112: store the entry, go to the next pair
StoreAndAdvance(value, updated) ==
    LET stored == PutEntry(detailed_values, name, measurement,
                           [value |-> value, updated |-> updated]) IN
    IF mi < NUM_MEASUREMENTS
    THEN /\ mi' = mi + 1
         /\ di' = di
         /\ detailed_values' = stored
         /\ pc' = "read"
    ELSE IF di < Len(HUAWEI_INVERTERS)
    THEN /\ mi' = 1
         /\ di' = di + 1
         /\ detailed_values' = PutEmpty(stored, HUAWEI_INVERTERS[di + 1])
         /\ pc' = "read"
    ELSE /\ mi' = 1
         /\ di' = 1
         /\ detailed_values' = stored
         /\ pc' = "aggregate"

\* faulty variant of ReadReturns: line 121 placed before the scaling of
\* lines 118-119, last_successful gets the raw number
ReadReturnsStoresRaw(raw) ==
    LET value == Transform(measurement, raw) IN
    /\ pc = "read"
    /\ read_outcome' = [kind |-> "number", raw |-> raw]
    /\ last_successful' = [last_successful EXCEPT ![name][measurement] = raw]
    /\ last_raw' = [last_raw EXCEPT ![name][measurement] = <<raw>>]
    /\ UNCHANGED <<round_start, published>>
    /\ StoreAndAdvance(value, TRUE)
    /\ UNCHANGED <<e, reconnect_result, failed_reading_counter,
                   aggregated_values, valid_readings_count, register_offset,
                   datastore, data_lock, response>>
    /\ round_reads' = Append(round_reads, [name |-> name, measurement |-> measurement, ok |-> TRUE])
    /\ UNCHANGED <<reconnect_calls, sig, shutdown_log>>

\* lines 114-122, 131: read_raw_value returns the number raw
ReadReturns(raw) ==
    LET value == Transform(measurement, raw) IN
    /\ pc = "read"
    /\ read_outcome' = [kind |-> "number", raw |-> raw]
    /\ last_successful' = [last_successful EXCEPT ![name][measurement] = value]
    /\ last_raw' = [last_raw EXCEPT ![name][measurement] = <<raw>>]
    /\ UNCHANGED <<round_start, published>>
    /\ StoreAndAdvance(value, TRUE)
    /\ UNCHANGED <<e, reconnect_result, failed_reading_counter,
                   aggregated_values, valid_readings_count, register_offset,
                   datastore, data_lock, response>>
    /\ round_reads' = Append(round_reads, [name |-> name, measurement |-> measurement, ok |-> TRUE])
    /\ UNCHANGED <<reconnect_calls, sig, shutdown_log>>

\* a successful read, the device answering from its usual values
ReadValue == \E raw \in RawValues(name, measurement) : ReadReturns(raw)

\* a successful read, the device answering from the wide range
ReadWideValue == \E raw \in WideValues(measurement) : ReadReturns(raw)

\* faulty variant of EnterHandler: the failed pair's last successful value is reset
EnterHandlerForgets(outcome, exception) ==
    /\ failed_reading_counter < MaxFailures
    /\ read_outcome' = [kind |-> outcome]
    /\ e' = exception
    /\ failed_reading_counter' = failed_reading_counter + 1
    /\ last_successful' = [last_successful EXCEPT ![name][measurement] = 0]
    /\ pc' = "disconnect"
    /\ UNCHANGED <<di, mi, reconnect_result, detailed_values,
                   aggregated_values, valid_readings_count, register_offset,
                   datastore, data_lock, response,
                   last_raw, round_start, published>>
    /\ round_reads' = Append(round_reads, [name |-> name, measurement |-> measurement, ok |-> FALSE])
    /\ UNCHANGED <<reconnect_calls, sig, shutdown_log>>

\* lines 123-127: the handler's entry
EnterHandler(outcome, exception) ==
    /\ failed_reading_counter < MaxFailures
    /\ read_outcome' = [kind |-> outcome]
    /\ e' = exception
    /\ failed_reading_counter' = failed_reading_counter + 1
    /\ pc' = "disconnect"
    /\ UNCHANGED <<di, mi, reconnect_result, detailed_values, last_successful,
                   aggregated_values, valid_readings_count, register_offset,
                   datastore, data_lock, response,
                   last_raw, round_start, published>>
    /\ round_reads' = Append(round_reads, [name |-> name, measurement |-> measurement, ok |-> FALSE])
    /\ UNCHANGED <<reconnect_calls, sig, shutdown_log>>

\* lines 114-116: read_raw_value returns None
ReadNone ==
    /\ pc = "read"
    /\ EnterHandler("None", "ValueError")

\* line 114: read_raw_value raises
ReadRaises ==
    /\ pc = "read"
    /\ EnterHandler("raise", "ReadError")

-----------------------------------------------------------------------------
(* reconnect_inverter *)

\* line 92 returns
DisconnectOk ==
    /\ pc = "disconnect"
    /\ pc' = "pause"
    /\ UNCHANGED <<di, mi, read_outcome, e, reconnect_result, detailed_values, last_successful,
                   failed_reading_counter, aggregated_values,
                   valid_readings_count, register_offset, datastore, data_lock,
                   response,
                   last_raw, round_start, published>>
    /\ reconnect_calls' = Append(reconnect_calls, [op |-> "disconnect", on |-> name, raised |-> FALSE])
    /\ UNCHANGED <<round_reads, sig, shutdown_log>>

\* faulty variant of DisconnectRaises: the failed reconnect is counted as well
DisconnectRaisesCounts ==
    /\ pc = "disconnect"
    /\ pc' = "fallback"
    /\ reconnect_result' = "False"
    /\ failed_reading_counter' = failed_reading_counter + 1
    /\ UNCHANGED <<di, mi, read_outcome, e, detailed_values, last_successful,
                   aggregated_values,
                   valid_readings_count, register_offset, datastore, data_lock,
                   response,
                   last_raw, round_start, published>>
    /\ reconnect_calls' = Append(reconnect_calls, [op |-> "disconnect", on |-> name, raised |-> TRUE])
    /\ UNCHANGED <<round_reads, sig, shutdown_log>>

\* faulty variant of DisconnectRaises: the exception is swallowed inside the try
\* block and connect is called all the same
DisconnectRaisesGoesOn ==
    /\ pc = "disconnect"
    /\ pc' = "pause"
    /\ UNCHANGED <<di, mi, read_outcome, e, reconnect_result, detailed_values, last_successful,
                   failed_reading_counter, aggregated_values,
                   valid_readings_count, register_offset, datastore, data_lock,
                   response,
                   last_raw, round_start, published>>
    /\ reconnect_calls' = Append(reconnect_calls, [op |-> "disconnect", on |-> name, raised |-> TRUE])
    /\ UNCHANGED <<round_reads, sig, shutdown_log>>

\* line 92 raises: lines 96-98
DisconnectRaises ==
    /\ pc = "disconnect"
    /\ pc' = "fallback"
    /\ reconnect_result' = "False"
    /\ UNCHANGED <<di, mi, read_outcome, e, detailed_values, last_successful,
                   failed_reading_counter, aggregated_values,
                   valid_readings_count, register_offset, datastore, data_lock,
                   response,
                   last_raw, round_start, published>>
    /\ reconnect_calls' = Append(reconnect_calls, [op |-> "disconnect", on |-> name, raised |-> TRUE])
    /\ UNCHANGED <<round_reads, sig, shutdown_log>>

\* line 93
Pause ==
    /\ pc = "pause"
    /\ pc' = "connect"
    /\ UNCHANGED <<di, mi, read_outcome, e, reconnect_result, detailed_values, last_successful,
                   failed_reading_counter, aggregated_values,
                   valid_readings_count, register_offset, datastore, data_lock,
                   response,
                   last_raw, round_start, published>>
    /\ reconnect_calls' = Append(reconnect_calls, [op |-> "sleep", on |-> name, raised |-> FALSE])
    /\ UNCHANGED <<round_reads, sig, shutdown_log>>

\* lines 94-95
ConnectOk ==
    /\ pc = "connect"
    /\ pc' = "fallback"
    /\ reconnect_result' = "True"
    /\ UNCHANGED <<di, mi, read_outcome, e, detailed_values, last_successful,
                   failed_reading_counter, aggregated_values,
                   valid_readings_count, register_offset, datastore, data_lock,
                   response,
                   last_raw, round_start, published>>
    /\ reconnect_calls' = Append(reconnect_calls, [op |-> "connect", on |-> name, raised |-> FALSE])
    /\ UNCHANGED <<round_reads, sig, shutdown_log>>

\* faulty variant of ConnectRaises: the exception is not caught and ends main_loop
ConnectRaisesEscapes ==
    /\ pc = "connect"
    /\ pc' = "crashed"
    /\ UNCHANGED <<di, mi, read_outcome, e, reconnect_result, detailed_values,
                   last_successful, failed_reading_counter, aggregated_values,
                   valid_readings_count, register_offset, datastore, data_lock,
                   response, last_raw, round_start, published>>
    /\ reconnect_calls' = Append(reconnect_calls, [op |-> "connect", on |-> name, raised |-> TRUE])
    /\ UNCHANGED <<round_reads, sig, shutdown_log>>

\* line 94 raises: lines 96-98
ConnectRaises ==
    /\ pc = "connect"
    /\ pc' = "fallback"
    /\ reconnect_result' = "False"
    /\ UNCHANGED <<di, mi, read_outcome, e, detailed_values, last_successful,
                   failed_reading_counter, aggregated_values,
                   valid_readings_count, register_offset, datastore, data_lock,
                   response,
                   last_raw, round_start, published>>
    /\ reconnect_calls' = Append(reconnect_calls, [op |-> "connect", on |-> name, raised |-> TRUE])
    /\ UNCHANGED <<round_reads, sig, shutdown_log>>

\* faulty variant of FallbackValue: the first device's value, whichever device failed
FallbackFirstDevice == last_successful[HUAWEI_INVERTERS[1]][measurement]

\* faulty variant of FallbackValue: the stored value is scaled once more
FallbackRescaled == Transform(measurement, last_successful[name][measurement])

\* the value the handler takes at line 129
FallbackValue == last_successful[name][measurement]

\* lines 129, 131: the handler's end
Fallback ==
    /\ pc = "fallback"
    /\ StoreAndAdvance(FallbackValue, FALSE)
    /\ e' = "none"
    /\ reconnect_result' = "none"
    /\ UNCHANGED <<read_outcome, last_successful, failed_reading_counter, aggregated_values,
                   valid_readings_count, register_offset, datastore, data_lock,
                   response,
                   last_raw, round_start, published>>
    /\ reconnect_calls' = <<>>
    /\ UNCHANGED <<round_reads, sig, shutdown_log>>

-----------------------------------------------------------------------------
(* aggregate_values, update_modbus_registers, main_loop *)

\* line 180
Aggregate ==
    /\ pc = "aggregate"
    /\ aggregated_values' = AggregatedOf(detailed_values)
    /\ valid_readings_count' = ValidCountOf(detailed_values)
    /\ pc' = "acquire"
    /\ UNCHANGED <<di, mi, read_outcome, e, reconnect_result, detailed_values, last_successful,
                   failed_reading_counter, register_offset, datastore, data_lock,
                   response,
                   last_raw, round_start, published>>
    /\ UNCHANGED <<round_reads, reconnect_calls, sig, shutdown_log>>

\* lines 160-161
Acquire ==
    /\ pc = "acquire"
    /\ data_lock = "free"
    /\ data_lock' = "update_thread"
    /\ register_offset' = 0
    /\ pc' = "write"
    /\ UNCHANGED <<di, mi, read_outcome, e, reconnect_result, detailed_values, last_successful,
                   failed_reading_counter, aggregated_values,
                   valid_readings_count, datastore, response,
                   last_raw, round_start, published>>
    /\ UNCHANGED <<round_reads, reconnect_calls, sig, shutdown_log>>

\* lines 162-167: one turn of the loop over aggregated_values.items()
WriteMeasurement ==
    /\ pc = "write"
    /\ register_offset < MEASUREMENTS_REGISTERS
    /\ LET total_value == aggregated_values[MEASUREMENTS[register_offset \div 2 + 1]]
           low == LowWord(total_value)
           high == HighWord(total_value)
       IN datastore' = SetValues(datastore, register_offset, <<high, low>>)
    /\ register_offset' = register_offset + 2
    /\ UNCHANGED <<pc, di, mi, read_outcome, e, reconnect_result, detailed_values,
                   last_successful, failed_reading_counter, aggregated_values,
                   valid_readings_count, data_lock, response,
                   last_raw, round_start, published>>
    /\ UNCHANGED <<round_reads, reconnect_calls, sig, shutdown_log>>

\* faulty variant of WriteCount: the loop goes on without the sleep of line 183
WriteCountSkipsSleep ==
    /\ pc = "write"
    /\ register_offset = MEASUREMENTS_REGISTERS
    /\ datastore' = SetValues(datastore, register_offset, <<valid_readings_count>>)
    /\ published' = datastore'
    /\ UNCHANGED <<last_raw, round_start>>
    /\ data_lock' = "free"
    /\ pc' = "poll"
    /\ UNCHANGED <<di, mi, read_outcome, e, reconnect_result, detailed_values, last_successful,
                   failed_reading_counter, aggregated_values,
                   valid_readings_count, register_offset, response>>
    /\ UNCHANGED <<round_reads, reconnect_calls, sig, shutdown_log>>

\* lines 169-170 and the end of the with block
WriteCount ==
    /\ pc = "write"
    /\ register_offset = MEASUREMENTS_REGISTERS
    /\ datastore' = SetValues(datastore, register_offset, <<valid_readings_count>>)
    /\ published' = datastore'
    /\ UNCHANGED <<last_raw, round_start>>
    /\ data_lock' = "free"
    /\ pc' = "sleep"
    /\ UNCHANGED <<di, mi, read_outcome, e, reconnect_result, detailed_values, last_successful,
                   failed_reading_counter, aggregated_values,
                   valid_readings_count, register_offset, response>>
    /\ UNCHANGED <<round_reads, reconnect_calls, sig, shutdown_log>>

\* line 183, then the next turn of while True
Sleep ==
    /\ pc = "sleep"
    /\ pc' = "poll"
    /\ UNCHANGED <<di, mi, read_outcome, e, reconnect_result, detailed_values, last_successful,
                   failed_reading_counter, aggregated_values,
                   valid_readings_count, register_offset, datastore, data_lock,
                   response,
                   last_raw, round_start, published>>
    /\ UNCHANGED <<round_reads, reconnect_calls, sig, shutdown_log>>

-----------------------------------------------------------------------------
(* The Modbus server thread *)

\* a client's read of the holding registers 0..TOTAL_REGISTER_COUNT-1;
\* StartTcpServer is given the context only, not data_lock
ServerRead ==
    /\ response' = datastore
    /\ UNCHANGED <<pc, di, mi, read_outcome, e, reconnect_result, detailed_values,
                   last_successful, failed_reading_counter, aggregated_values,
                   valid_readings_count, register_offset, datastore, data_lock,
                   last_raw, round_start, published>>
    /\ UNCHANGED <<round_reads, reconnect_calls, sig, shutdown_log>>

-----------------------------------------------------------------------------

PollStep ==
    \/ BeginRound
    \/ ReadValue
    \/ ReadNone
    \/ ReadRaises
    \/ DisconnectOk
    \/ DisconnectRaises
    \/ Pause
    \/ ConnectOk
    \/ ConnectRaises
    \/ Fallback
    \/ Aggregate
    \/ Acquire
    \/ WriteMeasurement
    \/ WriteCount
    \/ Sleep

Next == PollStep \/ ServerRead

Spec == Init /\ [][Next]_vars

\* the first round of the program, the devices answering from the wide range
FirstRoundStep ==
    \/ BeginRound
    \/ ReadWideValue
    \/ ReadNone
    \/ ReadRaises
    \/ DisconnectOk
    \/ DisconnectRaises
    \/ Pause
    \/ ConnectOk
    \/ ConnectRaises
    \/ Fallback
    \/ Aggregate
    \/ Acquire
    \/ WriteMeasurement
    \/ WriteCount

FirstRoundSpec == Init /\ [][FirstRoundStep]_vars

-----------------------------------------------------------------------------
(* signal_handler, lines 199-210: run by the main thread on SIGINT/SIGTERM  *)
(* (registered at lines 223-224) while the poll thread keeps running        *)

\* everything but the handler's own state
program_vars == <<pc, di, mi, read_outcome, e, reconnect_result,
                  detailed_values, last_successful, failed_reading_counter,
                  aggregated_values, valid_readings_count, register_offset,
                  datastore, data_lock, response, last_raw, round_start,
                  published, round_reads, reconnect_calls>>

\* the signal is delivered: line 203
SignalArrives ==
    /\ sig = "none"
    /\ sig' = "handler"
    /\ UNCHANGED shutdown_log
    /\ UNCHANGED program_vars

\* the device the loop of line 204 handles next; inverter_dict keeps the
\* configuration order
shutdown_name == HUAWEI_INVERTERS[Len(shutdown_log) + 1]

\* faulty variant of ShutdownDisconnect: no try/except around the call, the
\* exception leaves the handler and ends the main thread
ShutdownDisconnectUncaught(raised) ==
    /\ sig = "handler"
    /\ Len(shutdown_log) < Len(HUAWEI_INVERTERS)
    /\ shutdown_log' = Append(shutdown_log,
                              [on |-> shutdown_name, raised |-> raised])
    /\ sig' = IF raised THEN "exited" ELSE sig
    /\ UNCHANGED program_vars

\* lines 204-209: one pass of the loop, inv.disconnect() returns or raises
ShutdownDisconnect(raised) ==
    /\ sig = "handler"
    /\ Len(shutdown_log) < Len(HUAWEI_INVERTERS)
    /\ shutdown_log' = Append(shutdown_log,
                              [on |-> shutdown_name, raised |-> raised])
    /\ UNCHANGED sig
    /\ UNCHANGED program_vars

\* line 210 after the loop: sys.exit(0) in the main thread ends the process;
\* update_thread is a daemon thread (line 231) and ends with it wherever it is
Exit ==
    /\ sig = "handler"
    /\ Len(shutdown_log) = Len(HUAWEI_INVERTERS)
    /\ sig' = "exited"
    /\ UNCHANGED shutdown_log
    /\ UNCHANGED program_vars

ShutdownStep ==
    \/ SignalArrives
    \/ \E raised \in BOOLEAN : ShutdownDisconnect(raised)
    \/ Exit

\* the poll thread runs as long as the process lives
ShutdownNext ==
    \/ (sig # "exited" /\ PollStep)
    \/ ShutdownStep

\* the poll thread and one termination request
ShutdownSpec == Init /\ [][ShutdownNext]_vars

-----------------------------------------------------------------------------
(* Sums of 2^32 and more. Python's integers are unbounded; the numbers of   *)
(* the definitions above are kept below 2^31. Here a number is held in two  *)
(* limbs, [hi |-> h, lo |-> l] with 0 <= l < 65536 standing for             *)
(* h * 65536 + l, so that lines 114-121, 146-148 and 163-165 can be run on  *)
(* numbers up to 2^47.                                                      *)

\* the number n, 0 <= n < 2^31, in limbs
Big(n) == [hi |-> n \div 65536, lo |-> n % 65536]

\* what read_raw_value may return for a register, in limbs: 100 or 5000,
\* 2^31 (times 100 for the yield, with a remainder), 3 * 2^30 + 40000,
\* 2^32 - 1
BigValues(register) ==
    IF register = "active_power"
    THEN {Big(100), [hi |-> 32768, lo |-> 0], [hi |-> 49152, lo |-> 40000],
          [hi |-> 65535, lo |-> 65535]}
    ELSE {Big(5000), [hi |-> 3276800, lo |-> 99], [hi |-> 4915261, lo |-> 2304]}

\* int(value / 100) for value >= 0
BigScaleYield(value) ==
    [hi |-> value.hi \div 100,
     lo |-> ((value.hi % 100) * 65536 + value.lo) \div 100]

\* lines 118-119
BigTransform(register, value) ==
    IF register = "Accumulated_energy_yield" THEN BigScaleYield(value) ELSE value

\* a + b of line 148
BigAdd(a, b) ==
    [hi |-> a.hi + b.hi + (a.lo + b.lo) \div 65536,
     lo |-> (a.lo + b.lo) % 65536]

\* total_value & 0xFFFF
BigLowWord(total_value) == total_value.lo % 65536

\* faulty variant of BigHighWord: the shift without the mask
BigHighWordUnmasked(total_value) == total_value.hi

\* (total_value >> 16) & 0xFFFF
BigHighWord(total_value) == total_value.hi % 65536

RECURSIVE BigSumOver(_, _, _)
\* lines 146-148 for one measurement: the devices 1..i of the dict, in order
BigSumOver(dv, register, i) ==
    IF i = 0 THEN Big(0)
    ELSE BigAdd(BigSumOver(dv, register, i - 1),
                dv[HUAWEI_INVERTERS[i]][register].value)

\* lines 114-122, 131: read_raw_value returns the number raw
ReadReturnsBig(raw) ==
    LET value == BigTransform(measurement, raw) IN
    /\ pc = "read"
    /\ read_outcome' = [kind |-> "number", raw |-> raw]
    /\ last_successful' = [last_successful EXCEPT ![name][measurement] = value]
    /\ last_raw' = [last_raw EXCEPT ![name][measurement] = <<raw>>]
    /\ StoreAndAdvance(value, TRUE)
    /\ round_reads' = Append(round_reads, [name |-> name, measurement |-> measurement, ok |-> TRUE])
    /\ UNCHANGED <<e, reconnect_result, failed_reading_counter,
                   aggregated_values, valid_readings_count, register_offset,
                   datastore, data_lock, response, round_start, published,
                   reconnect_calls, sig, shutdown_log>>

ReadBigValue == \E raw \in BigValues(measurement) : ReadReturnsBig(raw)

\* aggregate_values, lines 143-152
AggregateBig ==
    /\ pc = "aggregate"
    /\ aggregated_values' =
           [m \in MeasurementNames |->
               BigSumOver(detailed_values, m, Len(HUAWEI_INVERTERS))]
    /\ valid_readings_count' = ValidCountOf(detailed_values)
    /\ pc' = "acquire"
    /\ UNCHANGED <<di, mi, read_outcome, e, reconnect_result, detailed_values,
                   last_successful, failed_reading_counter, register_offset,
                   datastore, data_lock, response, last_raw, round_start,
                   published, round_reads, reconnect_calls, sig, shutdown_log>>

\* lines 162-167: one turn of the loop over aggregated_values.items()
WriteBigMeasurement ==
    /\ pc = "write"
    /\ register_offset < MEASUREMENTS_REGISTERS
    /\ LET total_value == aggregated_values[MEASUREMENTS[register_offset \div 2 + 1]]
           low == BigLowWord(total_value)
           high == BigHighWord(total_value)
       IN datastore' = SetValues(datastore, register_offset, <<high, low>>)
    /\ register_offset' = register_offset + 2
    /\ UNCHANGED <<pc, di, mi, read_outcome, e, reconnect_result, detailed_values,
                   last_successful, failed_reading_counter, aggregated_values,
                   valid_readings_count, data_lock, response, last_raw,
                   round_start, published, round_reads, reconnect_calls, sig,
                   shutdown_log>>

\* one round of the poll thread with every read returning a number
WideSumStep ==
    \/ BeginRound
    \/ ReadBigValue
    \/ AggregateBig
    \/ Acquire
    \/ WriteBigMeasurement
    \/ WriteCount

WideSumSpec == Init /\ [][WideSumStep]_vars

-----------------------------------------------------------------------------
(* Definitions the properties are stated with *)

Pairs == InverterNames \X MeasurementNames

RECURSIVE SumOfValues(_, _, _)
\* the sum of dv[n][m].value over the devices n of S
SumOfValues(dv, m, S) ==
    IF S = {} THEN 0
    ELSE LET n == CHOOSE x \in S : TRUE IN
         dv[n][m].value + SumOfValues(dv, m, S \ {n})

\* dv holds an entry for every pair
RoundComplete(dv) ==
    /\ DOMAIN dv = InverterNames
    /\ \A n \in InverterNames : DOMAIN dv[n] = MeasurementNames

\* the pairs dv holds an entry for
StoredPairs(dv) == {p \in Pairs : p[1] \in DOMAIN dv /\ p[2] \in DOMAIN dv[p[1]]}

\* main_loop holds the sums of the round read last
Aggregated == pc \in {"acquire", "write", "sleep", "poll"} /\ RoundComplete(detailed_values)

\* a read has just been dealt with: its entry is stored and no other read has begun
JustStored == pc = "aggregate" \/ (pc = "read" /\ (di > 1 \/ mi > 1))

\* the pair of that read
LastPair ==
    IF pc = "aggregate" THEN <<HUAWEI_INVERTERS[Len(HUAWEI_INVERTERS)], MEASUREMENTS[NUM_MEASUREMENTS]>>
    ELSE IF mi > 1 THEN <<HUAWEI_INVERTERS[di], MEASUREMENTS[mi - 1]>>
    ELSE <<HUAWEI_INVERTERS[di - 1], MEASUREMENTS[NUM_MEASUREMENTS]>>

\* its entry
LastEntry == detailed_values[LastPair[1]][LastPair[2]]

\* q is r / 100 truncated toward zero
IsTruncatedHundredth(r, q) ==
    IF r >= 0
    THEN q >= 0 /\ q * 100 <= r /\ r - q * 100 < 100
    ELSE q <= 0 /\ q * 100 >= r /\ q * 100 - r < 100

\* v is what a read returning raw is worth
IsTransformed(m, raw, v) ==
    IF m = "Accumulated_energy_yield" THEN IsTruncatedHundredth(raw, v) ELSE v = raw

\* the register table that holds the sums and the count of one round
WholeTable(sums, count) ==
    [a \in 1..(2 * NUM_MEASUREMENTS + 1) |->
        IF a = 2 * NUM_MEASUREMENTS + 1 THEN count
        ELSE LET total == sums[MEASUREMENTS[(a + 1) \div 2]] IN
             IF a % 2 = 1 THEN (total \div 65536) % 65536 ELSE total % 65536]

-----------------------------------------------------------------------------
(* C1 *)

\* C1: every table the server reads for a client is the table of one round: the
\* one the last completed update left, or the one the update in progress writes.
C1_ReadsOneRound ==
    [][response' # response =>
         response' \in ({published} \cup
                        (IF pc = "write"
                         THEN {WholeTable(aggregated_values, valid_readings_count)}
                         ELSE {}))]_vars

-----------------------------------------------------------------------------
(* C2 *)

\* C2: once a round is aggregated, each sum is the sum of the round's entries
\* over all configured devices, none left out; an entry that is not fresh holds
\* the pair's last successful value, and the entry of a read that returned a
\* number holds that number, transformed.
C2_SumOfChosenValues ==
    /\ Aggregated =>
         \A m \in MeasurementNames :
             aggregated_values[m] = SumOfValues(detailed_values, m, InverterNames)
    /\ pc \in {"aggregate", "acquire", "write", "sleep"} => RoundComplete(detailed_values)
    /\ \A p \in StoredPairs(detailed_values) :
         ~detailed_values[p[1]][p[2]].updated =>
             detailed_values[p[1]][p[2]].value = last_successful[p[1]][p[2]]
    /\ (JustStored /\ read_outcome.kind = "number") =>
         /\ LastEntry.updated
         /\ IsTransformed(LastPair[2], read_outcome.raw, LastEntry.value)

\* a round aggregated from one fresh value and one last successful value
C2_Witness ==
    /\ pc = "acquire"
    /\ detailed_values["A"]["active_power"] = [value |-> 100, updated |-> TRUE]
    /\ detailed_values["B"]["active_power"] = [value |-> 50, updated |-> FALSE]
    /\ aggregated_values["active_power"] = 150

-----------------------------------------------------------------------------
(* C3 *)

\* C3: after a read that raised or returned None, the pair's entry is not
\* updated and holds the pair's last successful value, which is 0 when no read
\* of the pair has succeeded yet.
C3_FailedReadFallsBack ==
    (JustStored /\ read_outcome.kind \in {"None", "raise"}) =>
        /\ LastEntry.updated = FALSE
        /\ LastEntry.value = last_successful[LastPair[1]][LastPair[2]]
        /\ last_raw[LastPair[1]][LastPair[2]] = <<>> => LastEntry.value = 0
        /\ last_raw[LastPair[1]][LastPair[2]] # <<>> =>
               IsTransformed(LastPair[2], last_raw[LastPair[1]][LastPair[2]][1],
                             LastEntry.value)

\* a read that returned None, of a pair read successfully before
C3_Witness ==
    /\ JustStored
    /\ read_outcome.kind = "None"
    /\ LastPair = <<"B", "Accumulated_energy_yield">>
    /\ LastEntry = [value |-> 2000, updated |-> FALSE]

-----------------------------------------------------------------------------
(* C4 *)

\* the scenario: in this round A read active_power = 100 and yield = 5000, both
\* reads of B failed, and B's last successful values are 50 and 2000
C4_Scenario ==
    /\ pc = "acquire"
    /\ detailed_values["A"]["active_power"].updated
    /\ last_raw["A"]["active_power"] = <<100>>
    /\ detailed_values["A"]["Accumulated_energy_yield"].updated
    /\ last_raw["A"]["Accumulated_energy_yield"] = <<5000>>
    /\ ~detailed_values["B"]["active_power"].updated
    /\ ~detailed_values["B"]["Accumulated_energy_yield"].updated
    /\ last_successful["B"]["active_power"] = 50
    /\ last_successful["B"]["Accumulated_energy_yield"] = 2000

\* C4 as stated: in the scenario the aggregate is active_power = 150, yield = 40.
C4_AsStated ==
    C4_Scenario =>
        /\ aggregated_values["active_power"] = 150
        /\ aggregated_values["Accumulated_energy_yield"] = 40

\* C4, amended: in the scenario the aggregate is active_power = 150 and
\* yield = 2050: A's 5000 scaled to 50, plus B's last successful value 2000,
\* which was scaled when it was stored and is not scaled again.
C4_ScenarioAggregate ==
    C4_Scenario =>
        /\ aggregated_values["active_power"] = 150
        /\ aggregated_values["Accumulated_energy_yield"] = 2050

\* the scenario, aggregated
C4_Witness ==
    /\ C4_Scenario
    /\ aggregated_values["Accumulated_energy_yield"] = 2050

-----------------------------------------------------------------------------
(* C5 *)

\* C5: the entry and the last successful value of a read that returned the
\* number r hold r / 100 truncated toward zero for the energy yield (123 for
\* 12345, 0 for 99) and r itself for the active power; published alone, a yield
\* of 12345 shows as 123 and one of 99 as 0.
C5_ScalingTransform ==
    /\ (JustStored /\ read_outcome.kind = "number") =>
         LET r == read_outcome.raw
             v == LastEntry.value
         IN /\ last_successful[LastPair[1]][LastPair[2]] = v
            /\ LastPair[2] = "active_power" => v = r
            /\ LastPair[2] = "Accumulated_energy_yield" =>
                 /\ IsTruncatedHundredth(r, v)
                 /\ r = 12345 => v = 123
                 /\ r = 99 => v = 0
    /\ (/\ pc = "sleep"
        /\ detailed_values["A"]["Accumulated_energy_yield"].updated
        /\ ~detailed_values["B"]["Accumulated_energy_yield"].updated
        /\ last_successful["B"]["Accumulated_energy_yield"] = 0) =>
         LET r == last_raw["A"]["Accumulated_energy_yield"][1] IN
         /\ r = 12345 => (datastore[3] = 0 /\ datastore[4] = 123)
         /\ r = 99 => (datastore[3] = 0 /\ datastore[4] = 0)

\* a yield of 12345, read from A and published alone
C5_Witness ==
    /\ pc = "sleep"
    /\ last_raw["A"]["Accumulated_energy_yield"] = <<12345>>
    /\ detailed_values["A"]["Accumulated_energy_yield"] = [value |-> 123, updated |-> TRUE]
    /\ ~detailed_values["B"]["Accumulated_energy_yield"].updated
    /\ datastore[4] = 123

-----------------------------------------------------------------------------
(* C6 *)

\* C6: after an update, the two words of every sum v >= 0 are 16-bit words with
\* high * 65536 + low = v; for v = 98304 (0x00018000) they are 1 and 32768.
C6_PackingRoundTrip ==
    pc = "sleep" =>
        \A i \in 1..NUM_MEASUREMENTS :
            LET v == aggregated_values[MEASUREMENTS[i]]
                high == datastore[2 * i - 1]
                low == datastore[2 * i]
            IN /\ v >= 0 =>
                    /\ high \in 0..65535
                    /\ low \in 0..65535
                    /\ high <= 32767
                    /\ high * 65536 + low = v
               /\ v = 98304 => (high = 1 /\ low = 32768)

\* the sum 0x00018000, published
C6_Witness ==
    /\ pc = "sleep"
    /\ aggregated_values["active_power"] = 98304
    /\ datastore[1] = 1
    /\ datastore[2] = 32768

-----------------------------------------------------------------------------
(* C7 *)

\* the entries of dv that are fresh
FreshPairs(dv) == {p \in StoredPairs(dv) : dv[p[1]][p[2]].updated}

\* C7: the table always has 2 * K + 1 words, and from the end of an update to
\* the start of the next round the sum of the kind at position i is at words
\* 2 * i (high) and 2 * i + 1 (low), and the count of the round's fresh entries
\* at word 2 * K.
C7_TableLayout ==
    /\ DOMAIN datastore = 1..(2 * NUM_MEASUREMENTS + 1)
    /\ TOTAL_REGISTER_COUNT = 2 * NUM_MEASUREMENTS + 1
    /\ (pc \in {"sleep", "poll"} /\ RoundComplete(detailed_values)) =>
         datastore = WholeTable(aggregated_values,
                                Cardinality(FreshPairs(detailed_values)))

\* a published round with a sum above 16 bits
C7_Witness ==
    /\ pc = "sleep"
    /\ datastore = <<1, 32868, 0, 2050, 4>>

-----------------------------------------------------------------------------
(* C8 *)

\* every read of the round failed
AllFailed ==
    /\ RoundComplete(detailed_values)
    /\ FreshPairs(detailed_values) = {}

\* C8: a round in which every read failed is about to write, and then has
\* written, the words of the sums the previous update wrote (the initial zeros
\* if there was none) and the count 0, and has left last_successful as it was
\* when the round began.
C8_AllFailedRoundRepeats ==
    /\ (pc \in {"acquire", "write"} /\ AllFailed) =>
         /\ valid_readings_count = 0
         /\ \A a \in 1..(2 * NUM_MEASUREMENTS) :
                WholeTable(aggregated_values, 0)[a] = published[a]
    /\ (pc = "sleep" /\ AllFailed) =>
         datastore = WholeTable(aggregated_values, 0)
    /\ (pc \in {"aggregate", "acquire", "write", "sleep"} /\ AllFailed) =>
         last_successful = round_start

\* an all-failed round after a round of four fresh readings
C8_Witness ==
    /\ pc = "sleep"
    /\ AllFailed
    /\ datastore = <<1, 32868, 0, 2050, 0>>

-----------------------------------------------------------------------------
(* C9 *)

\* a step of a failed read: the failing call, the reconnect, the fallback
FailedReadStep ==
    \/ pc = "read" /\ pc' = "disconnect"
    \/ pc \in {"disconnect", "pause", "connect", "fallback"} /\ pc' # pc

\* C9: a step of a failed read, a failed reconnect included, goes on with the
\* round and leaves the entry and the last successful value of every other pair
\* as they were; the published table holds the sums over all entries.
C9_FailureIsolation ==
    /\ [][FailedReadStep =>
            /\ pc' \in {"disconnect", "pause", "connect", "fallback", "read", "aggregate"}
            /\ \A p \in Pairs \ {<<name, measurement>>} :
                 /\ last_successful'[p[1]][p[2]] = last_successful[p[1]][p[2]]
                 /\ p \in StoredPairs(detailed_values) =>
                      /\ p \in StoredPairs(detailed_values')
                      /\ detailed_values'[p[1]][p[2]] = detailed_values[p[1]][p[2]]]_vars
    /\ [](pc = "sleep" =>
            /\ RoundComplete(detailed_values)
            /\ datastore =
                 WholeTable([m \in MeasurementNames |->
                                SumOfValues(detailed_values, m, InverterNames)],
                            valid_readings_count))

\* B's second read failed and so did the reconnect; A's and B's earlier
\* entries are still fresh
C9_Witness ==
    /\ pc = "fallback"
    /\ reconnect_result = "False"
    /\ name = "B"
    /\ measurement = "Accumulated_energy_yield"
    /\ detailed_values["A"]["active_power"] = [value |-> 100, updated |-> TRUE]
    /\ detailed_values["A"]["Accumulated_energy_yield"] = [value |-> 50, updated |-> TRUE]
    /\ detailed_values["B"]["active_power"] = [value |-> 50, updated |-> TRUE]

-----------------------------------------------------------------------------
(* C10 *)

\* the poll thread is scheduled again and again, and every call it makes returns
\* or raises
LiveSpec == Spec /\ WF_vars(PollStep)

\* in a round aggregated with every read of device n failed, n adds to each sum
\* the transformed number of the pair's last successful read, 0 if there was none
UnreachableContributes ==
    (pc \in {"acquire", "write", "sleep"} /\ RoundComplete(detailed_values)) =>
        \A n \in InverterNames :
            (\A m \in MeasurementNames : ~detailed_values[n][m].updated) =>
                \A m \in MeasurementNames :
                    LET c == aggregated_values[m]
                             - SumOfValues(detailed_values, m, InverterNames \ {n})
                    IN IF last_raw[n][m] = <<>>
                       THEN c = 0
                       ELSE IsTransformed(m, last_raw[n][m][1], c)

-----------------------------------------------------------------------------
(* C11 *)

\* the phase of the round the poll thread is in
Phase(p) ==
    IF p \in {"poll", "read", "disconnect", "pause", "connect", "fallback"}
    THEN "Polling"
    ELSE IF p = "aggregate" THEN "Aggregating"
    ELSE IF p \in {"acquire", "write"} THEN "Publishing"
    ELSE IF p = "sleep" THEN "Sleeping"
    ELSE "none"

NextPhase(ph) ==
    IF ph = "Polling" THEN "Aggregating"
    ELSE IF ph = "Aggregating" THEN "Publishing"
    ELSE IF ph = "Publishing" THEN "Sleeping"
    ELSE IF ph = "Sleeping" THEN "Polling"
    ELSE "none"

\* the first read of a round is about to be made
RoundStarts == pc = "read" /\ round_reads = <<>>

\* C11: the poll thread only stays in its phase or moves to the next one of
\* Polling, Aggregating, Publishing, Sleeping, Polling; the reads made since
\* the last publication are those of one round; and a round starts reading only
\* out of the completed sleep that followed the publication of the round
\* before (or at start-up).
C11_StrictRoundSequencing ==
    /\ [][/\ Phase(pc) # "none"
          /\ Phase(pc') \in {Phase(pc), NextPhase(Phase(pc))}
          /\ (Phase(pc) = "Sleeping" /\ Phase(pc') = "Polling") =>
                 /\ published = datastore
                 /\ data_lock = "free"
                 /\ Len(round_reads) = Cardinality(Pairs)
          /\ (pc = "poll" /\ pc' # "poll") =>
                 /\ RoundStarts'
                 /\ published = datastore
                 /\ data_lock = "free"
          /\ (RoundStarts' /\ ~RoundStarts) => pc = "poll"]_vars
    /\ [](Len(round_reads) <= Cardinality(Pairs))

\* a second round starts reading after the first was published, all four
\* reads of it having succeeded
C11_Witness ==
    /\ RoundStarts
    /\ published[TOTAL_REGISTER_COUNT] = Cardinality(Pairs)

-----------------------------------------------------------------------------
(* C12 *)

\* a read, a reconnect, the aggregation or the publish step of a round is
\* pending in the poll thread
RoundInFlight == pc \notin {"poll", "sleep"}

\* C12: a termination request does not abort a round: when the process has
\* exited, the poll thread is not left inside a read, a reconnect or the
\* publish step of a round it had begun.
C12_ShutdownDoesNotAbortRound == sig = "exited" => ~RoundInFlight

-----------------------------------------------------------------------------
(* C13 *)

\* the number of disconnect calls signal_handler has made on device n
ShutdownDisconnects(n) ==
    Cardinality({i \in 1..Len(shutdown_log) : shutdown_log[i].on = n})

-----------------------------------------------------------------------------
(* C14 *)

\* the number of reads of the round so far that returned a number
SucceededReads ==
    Cardinality({i \in 1..Len(round_reads) : round_reads[i].ok})

\* C14: once a round is aggregated its count of valid readings, and once it
\* is published the last word of the table, is the number of pairs whose read
\* succeeded in that round, whatever the rounds before were; it lies between 0
\* and the number of devices times the number of measurement kinds.
C14_HealthWord ==
    /\ pc \in {"acquire", "write", "sleep"} =>
          /\ Len(round_reads) = Cardinality(Pairs)
          /\ valid_readings_count = SucceededReads
          /\ valid_readings_count \in 0..(Len(HUAWEI_INVERTERS) * NUM_MEASUREMENTS)
    /\ pc = "sleep" =>
          /\ datastore[TOTAL_REGISTER_COUNT] = SucceededReads
          /\ published[TOTAL_REGISTER_COUNT] = SucceededReads

\* a round published with two successful and two failed reads, after a round
\* in which one read failed: its last word is 2
C14_Witness ==
    /\ pc = "sleep"
    /\ SucceededReads = 2
    /\ datastore[TOTAL_REGISTER_COUNT] = 2
    /\ failed_reading_counter = 3

-----------------------------------------------------------------------------
(* C15 *)

\* this step is the read of pair p returning a number
SuccessfulReadOf(p) ==
    /\ pc = "read"
    /\ <<name, measurement>> = p
    /\ round_reads' = Append(round_reads,
                             [name |-> p[1], measurement |-> p[2], ok |-> TRUE])

\* C15: the last successful value of a pair changes only in a step that is a
\* successful read of that pair, and after such a step it is the transformed
\* number read; a failed read, the reconnect, the fallback, the aggregation,
\* the publishing and the sleep leave every entry as it was, and no entry is
\* ever removed.
C15_LastKnownGoodFrame ==
    [][/\ \A p \in Pairs :
            /\ last_successful'[p[1]][p[2]] # last_successful[p[1]][p[2]] =>
                   SuccessfulReadOf(p)
            /\ SuccessfulReadOf(p) =>
                   IsTransformed(p[2], read_outcome'.raw,
                                 last_successful'[p[1]][p[2]])
       /\ (pc # "read" \/ pc' = "disconnect") => UNCHANGED last_successful
       /\ DOMAIN last_successful' = InverterNames
       /\ \A n \in InverterNames : DOMAIN last_successful'[n] = MeasurementNames]_vars

\* B's yield read has failed and its reconnect is over; the entry still holds
\* 2000 from the read of the round before that returned 200000
C15_Witness ==
    /\ pc = "fallback"
    /\ name = "B"
    /\ measurement = "Accumulated_energy_yield"
    /\ last_raw["B"]["Accumulated_energy_yield"] = <<200000>>
    /\ last_successful["B"]["Accumulated_energy_yield"] = 2000

-----------------------------------------------------------------------------
(* C16 *)

\* the i-th pair of a round: devices in the outer loop, measurements in the inner
PairAt(i) ==
    <<HUAWEI_INVERTERS[((i - 1) \div NUM_MEASUREMENTS) + 1],
      MEASUREMENTS[((i - 1) % NUM_MEASUREMENTS) + 1]>>

\* the poll thread is inside the except branch of a failed read
InHandler == pc \in {"disconnect", "pause", "connect", "fallback"}

\* the number of calls of op in the reconnect attempt being made
ReconnectCalls(op) ==
    Cardinality({i \in 1..Len(reconnect_calls) : reconnect_calls[i].op = op})

\* C16: the reads of a round are made in configuration order, each pair once
\* (the i-th read of the round is that of the i-th pair, and a finished round
\* has read them all); a failed read, and nothing else, starts one reconnect
\* attempt, whose calls are all made on the failing device with disconnect
\* called once; after the handler the loop goes on to the next pair.
C16_NoInRoundRetry ==
    /\ [](/\ Len(round_reads) <= Cardinality(Pairs)
          /\ \A i \in 1..Len(round_reads) :
                <<round_reads[i].name, round_reads[i].measurement>> = PairAt(i)
          /\ pc \in {"aggregate", "acquire", "write", "sleep"} =>
                Len(round_reads) = Cardinality(Pairs)
          /\ pc = "read" => <<name, measurement>> = PairAt(Len(round_reads) + 1)
          /\ InHandler =>
                /\ round_reads # <<>>
                /\ ~round_reads[Len(round_reads)].ok
                /\ <<name, measurement>> = PairAt(Len(round_reads))
                /\ \A i \in 1..Len(reconnect_calls) : reconnect_calls[i].on = name
                /\ ReconnectCalls("disconnect") = (IF pc = "disconnect" THEN 0 ELSE 1)
                /\ ReconnectCalls("connect") <= 1
          /\ ~InHandler => reconnect_calls = <<>>)
    /\ [][/\ (pc' = "disconnect" /\ pc # "disconnect") <=>
                 (/\ pc = "read"
                  /\ round_reads' = Append(round_reads,
                                           [name |-> name, measurement |-> measurement,
                                            ok |-> FALSE]))
          /\ (InHandler /\ ~InHandler') =>
                 /\ pc = "fallback"
                 /\ Len(round_reads') = Len(round_reads)
                 /\ ~detailed_values'[name][measurement].updated]_vars

\* a finished round whose second read failed and whose third read succeeded
C16_Witness ==
    /\ pc = "aggregate"
    /\ Len(round_reads) = Cardinality(Pairs)
    /\ ~round_reads[2].ok
    /\ round_reads[3].ok

-----------------------------------------------------------------------------
(* C17 *)

\* this step is a read_raw_value call that returns None or raises
FailedRead ==
    /\ pc = "read"
    /\ round_reads' = Append(round_reads,
                             [name |-> name, measurement |-> measurement, ok |-> FALSE])

\* C17: failed_reading_counter starts at 0, goes up by one in every step that
\* is a failed read and is left alone by every other step, a failed reconnect
\* included, so it never decreases. What the poll thread reads, stores and
\* publishes is fixed by things other than the counter: the pair read is the
\* next one of the configuration order, the value stored is the transformed
\* number read or the pair's last successful value, and the published table
\* holds the sums of the stored values and the count of the round's
\* successful reads.
C17_FailureCounter ==
    /\ failed_reading_counter = 0
    /\ [][/\ failed_reading_counter' =
                 (IF FailedRead THEN failed_reading_counter + 1
                                ELSE failed_reading_counter)
          /\ failed_reading_counter' >= failed_reading_counter
          /\ (pc \in {"disconnect", "connect"} /\ reconnect_result' = "False") =>
                 failed_reading_counter' = failed_reading_counter
          /\ round_reads' \notin {round_reads, <<>>} =>
                 /\ Len(round_reads') = Len(round_reads) + 1
                 /\ <<name, measurement>> = PairAt(Len(round_reads'))
          /\ SuccessfulReadOf(<<name, measurement>>) =>
                 /\ detailed_values'[name][measurement].updated
                 /\ IsTransformed(measurement, read_outcome'.raw,
                                  detailed_values'[name][measurement].value)
          /\ (pc = "fallback" /\ pc' # "fallback") =>
                 /\ ~detailed_values'[name][measurement].updated
                 /\ detailed_values'[name][measurement].value =
                        last_successful[name][measurement]]_vars
    /\ [](pc = "sleep" =>
             datastore = WholeTable([m \in MeasurementNames |->
                                        SumOfValues(detailed_values, m, InverterNames)],
                                    SucceededReads))

\* two reads have failed and the reconnect after the second has failed too:
\* the counter is 2
C17_Witness ==
    /\ pc = "fallback"
    /\ reconnect_result = "False"
    /\ Len(round_reads) = 2
    /\ ~round_reads[1].ok
    /\ ~round_reads[2].ok
    /\ failed_reading_counter = 2

-----------------------------------------------------------------------------
(* C19 *)

\* what a 16-bit holding register can hold
Words16 == 0..65535

\* C19: every word of the register table, the count of valid readings
\* included, is a 16-bit word in every reachable state, in the middle of an
\* update too, whatever the reads returned or however they failed; the number
\* of devices times the number of measurements is within 16 bits.
C19_WordRange ==
    /\ Len(HUAWEI_INVERTERS) * NUM_MEASUREMENTS \in Words16
    /\ DOMAIN datastore = 1..TOTAL_REGISTER_COUNT
    /\ \A a \in DOMAIN datastore : datastore[a] \in Words16
    /\ \A a \in DOMAIN published : published[a] \in Words16

\* the published active_power sum is -70000: its words are 65534 and 61072
C19_Witness ==
    /\ pc = "sleep"
    /\ aggregated_values["active_power"] = -70000
    /\ datastore[1] = 65534
    /\ datastore[2] = 61072

-----------------------------------------------------------------------------
(* C20 *)

\* one call of the reconnect attempt, on the device being read
Call(op, raised) == [op |-> op, on |-> name, raised |-> raised]

\* C20: a reconnect attempt calls disconnect, then pauses, then calls connect,
\* all for the device whose read failed; when disconnect raises, connect is
\* not called in that attempt; when either raises, reconnect_inverter returns
\* False, otherwise True; in every case the exception is caught, the pair gets
\* its last successful value with updated False and the round goes on to the
\* next pair.
C20_ReconnectStepOrder ==
    /\ [](/\ pc = "disconnect" => reconnect_calls = <<>>
          /\ pc = "pause" => reconnect_calls = <<Call("disconnect", FALSE)>>
          /\ pc = "connect" =>
                reconnect_calls = <<Call("disconnect", FALSE), Call("sleep", FALSE)>>
          /\ pc = "fallback" =>
                \/ /\ reconnect_calls = <<Call("disconnect", TRUE)>>
                   /\ reconnect_result = "False"
                \/ /\ reconnect_calls = <<Call("disconnect", FALSE), Call("sleep", FALSE),
                                          Call("connect", TRUE)>>
                   /\ reconnect_result = "False"
                \/ /\ reconnect_calls = <<Call("disconnect", FALSE), Call("sleep", FALSE),
                                          Call("connect", FALSE)>>
                   /\ reconnect_result = "True"
          /\ Phase(pc) # "none")
    /\ [][/\ (pc \in {"disconnect", "connect"} /\ pc' # pc) => pc' \in {"pause", "fallback"}
          /\ (pc = "fallback" /\ pc' # pc) =>
                /\ pc' \in {"read", "aggregate"}
                /\ detailed_values'[name][measurement] =
                       [value |-> last_successful[name][measurement], updated |-> FALSE]
                /\ Len(round_reads') = Len(round_reads)]_vars

\* B's disconnect has raised: reconnect_inverter has returned False without a
\* connect call and the fallback is about to be taken
C20_Witness ==
    /\ pc = "fallback"
    /\ name = "B"
    /\ reconnect_calls = <<[op |-> "disconnect", on |-> "B", raised |-> TRUE]>>
    /\ reconnect_result = "False"

-----------------------------------------------------------------------------
(* C18 *)

\* the limbs of the values stored for measurement m, added limb by limb
HiSum(m) ==
    SumOfValues([n \in InverterNames |->
                    [k \in MeasurementNames |->
                        [value |-> detailed_values[n][k].value.hi]]],
                m, InverterNames)

LoSum(m) ==
    SumOfValues([n \in InverterNames |->
                    [k \in MeasurementNames |->
                        [value |-> detailed_values[n][k].value.lo]]],
                m, InverterNames)

\* s, in limbs, is 2^32 or more
Wraps(s) == s.hi >= 65536

\* C18: the update never fails and never writes a word outside 0..65535;
\* after it the two words of every measurement's sum s, of the sums of 2^32
\* and more too, are the high and low halves of s mod 2^32, that is
\* s = k * 2^32 + high * 2^16 + low for a whole k >= 0; each measurement's
\* words follow from its own sum alone and the last word is the count of the
\* round's successful reads, whether or not another sum has wrapped.
C18_SumWrapAround ==
    /\ Phase(pc) # "none"
    /\ \A a \in DOMAIN datastore : datastore[a] \in Words16
    /\ pc = "sleep" =>
          /\ data_lock = "free"
          /\ datastore[TOTAL_REGISTER_COUNT] = SucceededReads
          /\ \A i \in 1..NUM_MEASUREMENTS :
                LET s == aggregated_values[MEASUREMENTS[i]]
                    high == datastore[2 * i - 1]
                    low == datastore[2 * i]
                IN /\ \E c \in 0..Len(HUAWEI_INVERTERS) :
                          /\ LoSum(MEASUREMENTS[i]) = c * 65536 + s.lo
                          /\ s.hi = HiSum(MEASUREMENTS[i]) + c
                   /\ s.lo \in Words16
                   /\ low = s.lo
                   /\ \E k \in 0..Len(HUAWEI_INVERTERS) :
                          /\ s.hi = k * 65536 + high
                          /\ Wraps(s) <=> k > 0

\* both devices returned 2^32 - 1 for active_power and 5000 for the yield:
\* the active_power sum 2^33 - 2 is published as 65535, 65534 (2^32 - 2), the
\* yield words are those of 100 and the last word is 4
C18_Witness ==
    /\ pc = "sleep"
    /\ Wraps(aggregated_values["active_power"])
    /\ aggregated_values["active_power"] = [hi |-> 131071, lo |-> 65534]
    /\ datastore = <<65535, 65534, 0, 100, 4>>

====
